---- MODULE Spec2Model ----
(***************************************************************************)
(* Recurring-event engine of tutor-log-api.                                *)
(*                                                                         *)
(*   - generate_repeat_instances (src/routers/utils/helpers.py): the       *)
(*     expansion of one event template into occurrences inside a window;   *)
(*   - the event handlers of src/routers/event.py that read and mutate     *)
(*     the template store.                                                 *)
(*                                                                         *)
(* Dates are day ordinals counted from 2024-01-01 (ordinal 0, a Monday).   *)
(* A datetime is a record [date, hour].  An Optional[date] is a sequence:  *)
(* << >> is None and <<d>> is the date d.  A repeat_pattern is the string  *)
(* value of the enum member, or "None".                                    *)
(*                                                                         *)
(* An exception raised by the code is part of the result of the operator   *)
(* that models the code: the field `raised` names the exception ("" when   *)
(* the code returns normally).                                             *)
(*                                                                         *)
(* Primary keys come from the sequences of the PostgreSQL tables           *)
(* (src/database.py): a deleted id is never given again.  A handler        *)
(* operator is the function run on its own; route_<handler> is the         *)
(* function as the application serves it, which requires that              *)
(* src/routers/event.py can be imported (RouterLoaded).                    *)
(***************************************************************************)
EXTENDS Integers, Sequences, FiniteSets, TLC

VARIABLES
    event,      \* the template handed to generate_repeat_instances
    window,     \* <<start_date, end_date>> of the call
    phase,      \* "call" before the function ran, "done" after ("idle" under Spec)
    out,        \* what the call produced: [raised, instances]
    events,     \* table "events": the committed rows, by id
    event_repeat_days, \* table "event_repeat_days": the committed rows
    events_id_seq,            \* the last id the sequence of events.id gave
    event_repeat_days_id_seq, \* the same for event_repeat_days.id
    today,      \* date.today() of the server
    req,        \* the last request a handler served
    resp        \* and its response: [status, raised, body]

engine == <<event, window, phase, out>>
store == <<events, event_repeat_days>>
sequences == <<events_id_seq, event_repeat_days_id_seq>>
vars == <<event, window, phase, out, events, event_repeat_days,
          events_id_seq, event_repeat_days_id_seq, today, req, resp>>

----------------------------------------------------------------------------
(* Calendar arithmetic of datetime.date, as the code uses it.              *)

Max(a, b) == IF a >= b THEN a ELSE b
Min(a, b) == IF a <= b THEN a ELSE b

IsLeap(y) == (y % 4 = 0 /\ y % 100 # 0) \/ y % 400 = 0

DaysInMonth(y, m) ==
    IF m = 2 THEN (IF IsLeap(y) THEN 29 ELSE 28)
    ELSE IF m \in {4, 6, 9, 11} THEN 30 ELSE 31

DaysInYear(y) == IF IsLeap(y) THEN 366 ELSE 365

RECURSIVE DaysBeforeYear(_)
DaysBeforeYear(y) ==
    IF y <= 2024 THEN 0 ELSE DaysBeforeYear(y - 1) + DaysInYear(y - 1)

RECURSIVE DaysBeforeMonth(_, _)
DaysBeforeMonth(y, m) ==
    IF m <= 1 THEN 0 ELSE DaysBeforeMonth(y, m - 1) + DaysInMonth(y, m - 1)

\* date(y, m, d) as an ordinal; the caller has checked that the day exists
MkDate(y, m, d) == DaysBeforeYear(y) + DaysBeforeMonth(y, m) + (d - 1)

RECURSIVE YearOfFrom(_, _)
YearOfFrom(n, y) ==
    IF n < DaysBeforeYear(y + 1) THEN y ELSE YearOfFrom(n, y + 1)

YearOf(n) == YearOfFrom(n, 2024)

RECURSIVE MonthOfFrom(_, _, _)
MonthOfFrom(n, y, m) ==
    IF n < DaysBeforeYear(y) + DaysBeforeMonth(y, m + 1) THEN m
    ELSE MonthOfFrom(n, y, m + 1)

MonthOf(n) == MonthOfFrom(n, YearOf(n), 1)

DayOf(n) == n - MkDate(YearOf(n), MonthOf(n), 1) + 1

\* date.weekday(): 0 = Monday .. 6 = Sunday; ordinal 0 is a Monday
PyWeekday(n) == n % 7

\* date.replace(day=d): << >> when the month has no such day (ValueError)
ReplaceDay(n, d) ==
    IF d <= DaysInMonth(YearOf(n), MonthOf(n))
    THEN <<MkDate(YearOf(n), MonthOf(n), d)>>
    ELSE << >>

\* the first day of the month after the month of n
NextMonth(n) ==
    IF MonthOf(n) = 12
    THEN MkDate(YearOf(n) + 1, 1, DayOf(n))
    ELSE MkDate(YearOf(n), MonthOf(n) + 1, DayOf(n))

\* datetime < datetime
DtLess(s, e) == s.date < e.date \/ (s.date = e.date /\ s.hour < e.hour)
DtLeq(s, e) == s = e \/ DtLess(s, e)

\* datetime.combine(date, time)
Combine(d, h) == [date |-> d, hour |-> h]

----------------------------------------------------------------------------
(* models/utils/enums.py                                                   *)

\* The members of RepeatPatternEnum, by attribute name.
RepeatPatternEnum_withDaily ==
    [WEEKLY |-> "weekly", MONTHLY |-> "monthly", CUSTOM_DAYS |-> "custom_days",
     DAILY |-> "daily"]

RepeatPatternEnum ==
    [WEEKLY |-> "weekly", MONTHLY |-> "monthly", CUSTOM_DAYS |-> "custom_days"]

\* RepeatPatternEnum.<name> raises AttributeError when the enum has no such member
EnumHas(name) == name \in DOMAIN RepeatPatternEnum

\* `if event.repeat_pattern`: None is falsy, every member value is a non-empty string
Truthy(pattern) == pattern # "None"

----------------------------------------------------------------------------
(* routers/utils/helpers.py: generate_repeat_instances                     *)

Returned(instances) == [raised |-> "", instances |-> instances]
Raised(exc) == [raised |-> exc, instances |-> << >>]

\* the dict appended for a single event (lines 22-35): no instance_date key
SingleInstance(ev) ==
    [id |-> ev.id, title |-> ev.title,
     start_time |-> ev.start_time, end_time |-> ev.end_time,
     repeat_pattern |-> ev.repeat_pattern, repeat_until |-> ev.repeat_until,
     is_repeat_instance |-> FALSE,
     original_date |-> ev.start_time.date, instance_date |-> << >>]

\* the dict appended for a generated instance on date d (lines 44-61, 77-94, 107-124)
RepeatInstance(ev, d) ==
    [id |-> ev.id, title |-> ev.title,
     start_time |-> Combine(d, ev.start_time.hour),
     end_time |-> Combine(d, ev.end_time.hour),
     repeat_pattern |-> ev.repeat_pattern, repeat_until |-> ev.repeat_until,
     is_repeat_instance |-> TRUE,
     original_date |-> ev.start_time.date, instance_date |-> <<d>>]

\* lines 18-36 without the range test of line 21
SingleInstances_noRangeTest(ev, start_date, end_date) == <<SingleInstance(ev)>>

\* lines 18-36 without the upper bound of the range test
SingleInstances_noUpperBound(ev, start_date, end_date) ==
    IF start_date <= ev.start_time.date THEN <<SingleInstance(ev)>> ELSE << >>

\* lines 18-36: the single event, when its date falls within the range
SingleInstances(ev, start_date, end_date) ==
    IF start_date <= ev.start_time.date /\ ev.start_time.date <= end_date
    THEN <<SingleInstance(ev)>>
    ELSE << >>

\* lines 43-62: while current_date <= repeat_end_date
RECURSIVE DailyLoop(_, _, _)
DailyLoop(ev, current_date, repeat_end_date) ==
    IF current_date <= repeat_end_date
    THEN <<RepeatInstance(ev, current_date)>>
         \o DailyLoop(ev, current_date + 1, repeat_end_date)
    ELSE << >>

\* lines 66-70: the weekdays of the event, or [event.start_time.weekday()]
WeeklyRepeatDays(ev) ==
    IF ev.repeat_days = {} THEN {PyWeekday(ev.start_time.date)} ELSE ev.repeat_days

\* lines 72-96
RECURSIVE WeeklyLoop(_, _, _, _)
WeeklyLoop(ev, repeat_days, current_date, repeat_end_date) ==
    IF current_date <= repeat_end_date
    THEN LET current_weekday == (PyWeekday(current_date) + 1) % 7
         IN (IF current_weekday \in repeat_days
             THEN <<RepeatInstance(ev, current_date)>> ELSE << >>)
            \o WeeklyLoop(ev, repeat_days, current_date + 1, repeat_end_date)
    ELSE << >>

\* lines 102-133
RECURSIVE MonthlyLoop(_, _, _, _, _)
MonthlyLoop(ev, original_day, current_month_date, start_date, repeat_end_date) ==
    IF current_month_date <= repeat_end_date
    THEN LET instance_date == ReplaceDay(current_month_date, original_day)
         IN (IF instance_date # << >>
                /\ start_date <= instance_date[1]
                /\ instance_date[1] <= repeat_end_date
             THEN <<RepeatInstance(ev, instance_date[1])>> ELSE << >>)
            \o MonthlyLoop(ev, original_day, NextMonth(current_month_date),
                           start_date, repeat_end_date)
    ELSE << >>

\* lines 10-135 with the lookup of line 42 finding a DAILY member and with
\* line 39 starting at the window's start_date instead of the later of it and
\* the event's start date
generate_repeat_instances_fromWindowStart(ev, start_date, end_date) ==
    IF ~Truthy(ev.repeat_pattern)
    THEN Returned(SingleInstances(ev, start_date, end_date))
    ELSE
      LET current_date == start_date
          repeat_end_date ==
              IF ev.repeat_until # << >>
              THEN Min(end_date, ev.repeat_until[1]) ELSE end_date
      IN
        IF ev.repeat_pattern = RepeatPatternEnum_withDaily.DAILY
        THEN Returned(DailyLoop(ev, current_date, repeat_end_date))
        ELSE IF ev.repeat_pattern = RepeatPatternEnum.WEEKLY
        THEN Returned(WeeklyLoop(ev, WeeklyRepeatDays(ev), current_date,
                                 repeat_end_date))
        ELSE IF ev.repeat_pattern = RepeatPatternEnum.MONTHLY
        THEN Returned(MonthlyLoop(ev, DayOf(ev.start_time.date),
                                  ReplaceDay(current_date, 1)[1],
                                  start_date, repeat_end_date))
        ELSE Returned(<< >>)

\* lines 10-135
generate_repeat_instances(ev, start_date, end_date) ==
    IF ~Truthy(ev.repeat_pattern)
    THEN Returned(SingleInstances(ev, start_date, end_date))
    ELSE
      LET current_date == Max(start_date, ev.start_time.date)
          repeat_end_date ==
              IF ev.repeat_until # << >>
              THEN Min(end_date, ev.repeat_until[1]) ELSE end_date
      IN
        \* line 42 evaluates RepeatPatternEnum.DAILY before any comparison
        IF ~EnumHas("DAILY") THEN Raised("AttributeError")
        ELSE IF ev.repeat_pattern = RepeatPatternEnum.DAILY
        THEN Returned(DailyLoop(ev, current_date, repeat_end_date))
        ELSE IF ev.repeat_pattern = RepeatPatternEnum.WEEKLY
        THEN Returned(WeeklyLoop(ev, WeeklyRepeatDays(ev), current_date,
                                 repeat_end_date))
        ELSE IF ev.repeat_pattern = RepeatPatternEnum.MONTHLY
        THEN Returned(MonthlyLoop(ev, DayOf(ev.start_time.date),
                                  ReplaceDay(current_date, 1)[1],
                                  start_date, repeat_end_date))
        ELSE Returned(<< >>)

----------------------------------------------------------------------------
(* The expansion engine on its own: one call of generate_repeat_instances  *)
(* on a template and a window drawn from bounded sets.                     *)

\* 2024-01-31, 2024-03-04 (a Monday), 2024-03-10 (a Sunday)
StartDates == {MkDate(2024, 1, 31), MkDate(2024, 3, 4), MkDate(2024, 3, 10)}
StartHours == {9, 23}
\* end_time = start_time + duration: 23:00 + 2h ends 01:00 on the next date
MaxDurationHours == 2
DurationHours == 1..MaxDurationHours
UntilDates == {<< >>, <<MkDate(2024, 2, 15)>>, <<MkDate(2024, 3, 12)>>}
WeekdaySets == {{}, {1, 3}, {0}}
WindowDates == {MkDate(2024, 1, 1), MkDate(2024, 3, 1), MkDate(2024, 3, 15),
                MkDate(2024, 3, 31), MkDate(2024, 4, 30)}
Windows == {w \in WindowDates \X WindowDates : w[1] <= w[2]}

\* The values Optional[RepeatPatternEnum] admits (models/events.py:14): None
\* and the values of the members of the enum.
PatternInputs == {"None"} \cup {RepeatPatternEnum[n] : n \in DOMAIN RepeatPatternEnum}

AddHours(dt, h) ==
    [date |-> dt.date + ((dt.hour + h) \div 24), hour |-> (dt.hour + h) % 24]

Template(d, h, dur, p, u, days) ==
    [id |-> 1, title |-> "old",
     start_time |-> Combine(d, h), end_time |-> AddHours(Combine(d, h), dur),
     repeat_pattern |-> p, repeat_until |-> u, repeat_days |-> days]

Templates ==
    {Template(d, h, dur, p, u, days) :
        d \in StartDates, h \in StartHours, dur \in DurationHours,
        p \in PatternInputs, u \in UntilDates, days \in WeekdaySets}

NoOutput == [raised |-> "", instances |-> << >>]

NoRequest == [op |-> "none"]
NoResponse == [status |-> 0, raised |-> "", body |-> << >>]

InitExpand ==
    /\ event \in Templates
    /\ window \in Windows
    /\ phase = "call"
    /\ out = NoOutput
    /\ events = << >>
    /\ event_repeat_days = {}
    /\ events_id_seq = 0
    /\ event_repeat_days_id_seq = 0
    /\ today = MkDate(2024, 3, 6)
    /\ req = NoRequest
    /\ resp = NoResponse

Expand ==
    /\ phase = "call"
    /\ out' = generate_repeat_instances(event, window[1], window[2])
    /\ phase' = "done"
    /\ UNCHANGED <<event, window, store, sequences, today, req, resp>>

NextExpand == Expand

SpecExpand == InitExpand /\ [][NextExpand]_vars

----------------------------------------------------------------------------
(* models/events.py: the tables, as the handlers of routers/event.py see   *)
(* them through a Session.                                                 *)

\* class Event with the owner_id column the handlers read
EventFields_withOwner ==
    {"title", "description", "event_type", "start_time", "end_time",
     "repeat_pattern", "repeat_until", "id", "created_at", "updated_at",
     "owner_id"}

\* the fields class Event declares (EventBase and Event)
EventFields ==
    {"title", "description", "event_type", "start_time", "end_time",
     "repeat_pattern", "repeat_until", "id", "created_at", "updated_at"}

\* reading or assigning event.<name>, or reading Event.<name>, raises when the
\* class declares no such field
HasField(name) == name \in EventFields

\* a row of "events"; it carries owner_id only if the class maps that column
EventRow(id, title, type, start, end, pattern, until, stamp, owner) ==
    LET row == [id |-> id, title |-> title, event_type |-> type,
                start_time |-> start, end_time |-> end,
                repeat_pattern |-> pattern, repeat_until |-> until,
                created_at |-> stamp, updated_at |-> stamp]
    IN IF HasField("owner_id") THEN row @@ [owner_id |-> owner] ELSE row

\* the ids of the committed events
EventIds == DOMAIN events

\* Event.repeat_days of a loaded row: the day_of_week of its EventRepeatDay rows
RepeatDaysOf(id) == {rd.day_of_week : rd \in {r \in event_repeat_days : r.event_id = id}}

\* the row with its repeat_days relationship loaded (selectinload)
Loaded(id) == events[id] @@ [repeat_days |-> RepeatDaysOf(id)]

OkResponse(body) == [status |-> 200, raised |-> "", body |-> body]
HttpError(code) == [status |-> code, raised |-> "HTTPException", body |-> << >>]
ServerError(exc) == [status |-> 500, raised |-> exc, body |-> << >>]

----------------------------------------------------------------------------
(* routers/event.py: get_events                                            *)

\* lines 93-100: the default window is the month of today / of start_date
DefaultStart(start_date) ==
    IF start_date = << >> THEN ReplaceDay(today, 1)[1] ELSE start_date[1]
DefaultEnd(start_date, end_date) ==
    IF end_date = << >>
    THEN NextMonth(ReplaceDay(start_date, 1)[1]) - 1
    ELSE end_date[1]

\* lines 84-121: the WHERE clause of the query
Selected(row, event_type, start_date, end_date) ==
    /\ event_type # "None" => row.event_type = event_type
    /\ \/ /\ row.repeat_pattern = "None"
          /\ start_date <= row.start_time.date
          /\ row.start_time.date <= end_date
       \/ /\ row.repeat_pattern # "None"
          /\ row.start_time.date <= end_date
          /\ (row.repeat_until = << >> \/ row.repeat_until[1] >= start_date)

\* the orders in which a query without ORDER BY may return a set of ids
Orders(ids) ==
    {s \in [1..Cardinality(ids) -> ids] :
        \A i, j \in 1..Cardinality(ids) : s[i] = s[j] => i = j}

\* lines 129-132: extend all_instances with the instances of each event; the
\* first call that raises ends the handler
RECURSIVE AllInstances(_, _, _)
AllInstances(order, start_date, end_date) ==
    IF order = << >> THEN Returned(<< >>)
    ELSE LET first == generate_repeat_instances(Loaded(Head(order)),
                                                start_date, end_date)
             rest == AllInstances(Tail(order), start_date, end_date)
         IN IF first.raised # "" THEN first
            ELSE IF rest.raised # "" THEN rest
            ELSE Returned(first.instances \o rest.instances)

RECURSIVE InsertByStartTime(_, _)
InsertByStartTime(x, sorted) ==
    IF sorted = << >> THEN <<x>>
    ELSE IF DtLess(x.start_time, Head(sorted).start_time) THEN <<x>> \o sorted
    ELSE <<Head(sorted)>> \o InsertByStartTime(x, Tail(sorted))

RECURSIVE SortedByStartTime(_)
SortedByStartTime(s) ==
    IF s = << >> THEN << >>
    ELSE InsertByStartTime(s[Len(s)], SortedByStartTime(SubSeq(s, 1, Len(s) - 1)))

\* line 135: all_instances.sort(key=lambda x: x["start_time"]), a stable sort
SortByStartTime(s) == SortedByStartTime(s)

\* line 89, `if owner_id:`: neither None nor 0
OwnerGiven(owner_id) == owner_id # << >> /\ owner_id[1] # 0

\* lines 70-137, for one order of the query's result
get_events(p, order) ==
    LET start_date == DefaultStart(p.start_date)
        end_date == DefaultEnd(start_date, p.end_date)
        all == AllInstances(order, start_date, end_date)
    IN \* line 90 reads Event.owner_id
       IF OwnerGiven(p.owner_id) /\ ~HasField("owner_id")
       THEN ServerError("AttributeError")
       ELSE IF ~p.include_repeats
       THEN OkResponse([i \in 1..Len(order) |-> events[order[i]]])
       ELSE IF all.raised # "" THEN ServerError(all.raised)
       ELSE OkResponse(SortByStartTime(all.instances))

\* the ids the query of get_events selects
QueryIds(p) ==
    LET start_date == DefaultStart(p.start_date)
        end_date == DefaultEnd(start_date, p.end_date)
    IN {id \in EventIds :
          /\ Selected(events[id], p.event_type, start_date, end_date)
          /\ OwnerGiven(p.owner_id) => events[id].owner_id = p.owner_id[1]}

\* the orders in which the query may return its rows: it has no ORDER BY; it
\* is not run when line 90 raises
QueryOrders(p) ==
    IF OwnerGiven(p.owner_id) /\ ~HasField("owner_id") THEN {<< >>}
    ELSE Orders(QueryIds(p))

GetEventsRequests ==
    [op : {"get_events"},
     start_date : {<< >>, <<MkDate(2024, 1, 1)>>},
     end_date : {<< >>, <<MkDate(2024, 4, 30)>>},
     event_type : {"None", "once"},
     include_repeats : BOOLEAN,
     owner_id : {<< >>, <<0>>, <<1>>}]

----------------------------------------------------------------------------
(* routers/event.py: update_event                                          *)

\* an EventUpdate: each field is << >> when unset and <<value>> when set
NoPatch ==
    [title |-> << >>, start_time |-> << >>, end_time |-> << >>,
     repeat_pattern |-> << >>, repeat_until |-> << >>]

\* lines 187-189 and 212-214: setattr for every field the patch sets
ApplyPatch(row, patch) ==
    [row EXCEPT
        !.title = IF patch.title # << >> THEN patch.title[1] ELSE @,
        !.start_time = IF patch.start_time # << >> THEN patch.start_time[1] ELSE @,
        !.end_time = IF patch.end_time # << >> THEN patch.end_time[1] ELSE @,
        !.repeat_pattern =
            IF patch.repeat_pattern # << >> THEN patch.repeat_pattern[1] ELSE @,
        !.repeat_until =
            IF patch.repeat_until # << >> THEN patch.repeat_until[1] ELSE @]

\* datetime - datetime, in hours
HoursBetween(later, earlier) ==
    (later.date - earlier.date) * 24 + (later.hour - earlier.hour)

\* the outcome of a handler: its response, the tables after it and the
\* sequences that give the ids
Outcome(r, evs, rds) ==
    [resp |-> r, events |-> evs, event_repeat_days |-> rds,
     events_id_seq |-> events_id_seq,
     event_repeat_days_id_seq |-> event_repeat_days_id_seq]
Unchanged(r) == Outcome(r, events, event_repeat_days)

\* the INSERTs of an outcome drew that many ids: a sequence never gives an id
\* again, whatever was deleted since
Drew(o, n_events, n_repeat_days) ==
    [o EXCEPT !.events_id_seq = @ + n_events,
              !.event_repeat_days_id_seq = @ + n_repeat_days]

\* the elements of a list
Range(s) == {s[i] : i \in DOMAIN s}

\* lines 166-172: a repeat day outside 0..6
BadRepeatDays(rdays) ==
    rdays # << >> /\ \E day \in Range(rdays[1]) : day < 0 \/ day > 6

\* EventRepeatDay(event_id=..., day_of_week=day) for each day of the list;
\* the INSERTs draw the ids from the sequence in the order of the list
NewRepeatDays(event_id, days) ==
    {[id |-> event_repeat_days_id_seq + i,
      event_id |-> event_id, day_of_week |-> days[i]] : i \in DOMAIN days}

\* lines 175-209: the update of the future instances only
UpdateFuture(p) ==
    LET ev == events[p.event_id]
        \* 177-178: a copy of every field of the original, its id included
        copy == [ev EXCEPT !.owner_id = p.current_user_id]
        \* 181-184
        frozen == [ev EXCEPT !.repeat_until = <<today - 1>>, !.updated_at = today]
        \* 187-189
        patched == ApplyPatch(copy, p.patch)
        \* 192-195
        new_start == Combine(today, patched.start_time.hour)
        time_diff == HoursBetween(patched.end_time, ev.start_time)
        new_event == [patched EXCEPT !.start_time = new_start,
                                     !.end_time = AddHours(new_start, time_diff),
                                     !.created_at = today, !.updated_at = today]
        \* 202-205: the rows carry new_event.id as it is before the commit
        new_days ==
            IF new_event.repeat_pattern = RepeatPatternEnum.WEEKLY
               /\ p.repeat_days # << >>
            THEN NewRepeatDays(new_event.id, p.repeat_days[1])
            ELSE {}
    IN
       \* 207: the INSERT of new_event, which brings its id, meets the row that
       \* holds that id, before any row of event_repeat_days is inserted
       IF new_event.id \in EventIds
       THEN Unchanged(ServerError("IntegrityError"))
       ELSE Drew(Outcome(OkResponse(<<new_event>>),
                         [i \in EventIds \cup {new_event.id} |->
                             IF i = new_event.id THEN new_event
                             ELSE IF i = ev.id THEN frozen ELSE events[i]],
                         event_repeat_days \cup new_days),
                 0, Cardinality(new_days))

\* lines 211-247: the update of the event itself
UpdateAll(p) ==
    LET ev == events[p.event_id]
        patched == ApplyPatch(ev, p.patch)
        updated == [patched EXCEPT !.updated_at = today]
        replace == /\ p.repeat_days # << >>
                   /\ \/ patched.repeat_pattern = RepeatPatternEnum.WEEKLY
                      \/ p.patch.repeat_pattern = <<RepeatPatternEnum.WEEKLY>>
        kept == {rd \in event_repeat_days : rd.event_id # p.event_id}
    IN
       IF /\ (p.patch.start_time # << >> \/ p.patch.end_time # << >>)
          /\ ~DtLess(patched.start_time, patched.end_time)
       THEN Unchanged(HttpError(400))
       ELSE IF replace
       THEN Drew(Outcome(OkResponse(<<updated>>),
                         [events EXCEPT ![p.event_id] = updated],
                         kept \cup NewRepeatDays(p.event_id, p.repeat_days[1])),
                 0, Len(p.repeat_days[1]))
       ELSE Outcome(OkResponse(<<updated>>),
                    [events EXCEPT ![p.event_id] = updated],
                    event_repeat_days)

\* lines 147-247 without lines 162-163 and with the copy of line 177 given an
\* id of its own by the INSERT: lines 181-199 are stored as they stand
update_event_freshSuccessor(p) ==
    IF p.event_id \notin EventIds THEN Unchanged(HttpError(404))
    ELSE IF BadRepeatDays(p.repeat_days) THEN Unchanged(HttpError(400))
    ELSE IF Truthy(events[p.event_id].repeat_pattern) /\ p.update_future_only
    THEN LET ev == events[p.event_id]
             frozen == [ev EXCEPT !.repeat_until = <<today - 1>>,
                                  !.updated_at = today]
             patched == ApplyPatch(ev, p.patch)
             new_start == Combine(today, patched.start_time.hour)
             time_diff == HoursBetween(patched.end_time, ev.start_time)
             new_event == [patched EXCEPT !.id = events_id_seq + 1,
                                          !.start_time = new_start,
                                          !.end_time = AddHours(new_start, time_diff),
                                          !.created_at = today, !.updated_at = today]
         IN Drew(Outcome(OkResponse(<<new_event>>),
                         [i \in EventIds \cup {new_event.id} |->
                             IF i = new_event.id THEN new_event
                             ELSE IF i = ev.id THEN frozen ELSE events[i]],
                         event_repeat_days),
                 1, 0)
    ELSE Unchanged(ServerError("AttributeError"))

\* lines 147-247
update_event(p) ==
    IF p.event_id \notin EventIds THEN Unchanged(HttpError(404))
    \* line 162 reads event.owner_id
    ELSE IF ~HasField("owner_id") THEN Unchanged(ServerError("AttributeError"))
    ELSE IF events[p.event_id].owner_id # p.current_user_id
    THEN Unchanged(HttpError(403))
    ELSE IF BadRepeatDays(p.repeat_days) THEN Unchanged(HttpError(400))
    ELSE IF Truthy(events[p.event_id].repeat_pattern) /\ p.update_future_only
    THEN UpdateFuture(p)
    ELSE UpdateAll(p)

MaxEvents == 2

Patches ==
    {NoPatch,
     [NoPatch EXCEPT !.title = <<"new">>],
     [NoPatch EXCEPT !.end_time = <<Combine(MkDate(2024, 3, 4), 8)>>],
     [NoPatch EXCEPT !.repeat_pattern = <<"weekly">>],
     [NoPatch EXCEPT !.repeat_until = <<<<MkDate(2024, 4, 30)>>>>]}

UpdateRequests ==
    [op : {"update_event"},
     event_id : 1..(MaxEvents + 1),
     patch : Patches,
     repeat_days : {<< >>, <<<<4, 2>>>>, <<<<7>>>>},
     update_future_only : BOOLEAN,
     current_user_id : {1, 2}]

----------------------------------------------------------------------------
(* routers/event.py: create_event                                          *)

\* `if repeat_days:`: None and the empty list are falsy
GivenRepeatDays(rdays) == rdays # << >> /\ rdays[1] # << >>

\* lines 17-68
create_event(p) ==
    LET event_data == p.event_data
        \* the id the INSERT draws from the sequence
        db_event == EventRow(events_id_seq + 1, event_data.title,
                             event_data.event_type, event_data.start_time,
                             event_data.end_time, event_data.repeat_pattern,
                             event_data.repeat_until, today, p.owner_id)
        \* 61-65
        days == IF GivenRepeatDays(p.repeat_days)
                   /\ event_data.repeat_pattern = RepeatPatternEnum.WEEKLY
                THEN NewRepeatDays(db_event.id, p.repeat_days[1])
                ELSE {}
    IN
       \* 27-33
       IF BadRepeatDays(p.repeat_days) THEN Unchanged(HttpError(400))
       \* 36-40
       ELSE IF ~DtLess(event_data.start_time, event_data.end_time)
       THEN Unchanged(HttpError(400))
       \* 43: a set repeat_pattern makes the test evaluate RepeatPatternEnum.NONE
       ELSE IF Truthy(event_data.repeat_pattern) /\ ~EnumHas("NONE")
       THEN Unchanged(ServerError("AttributeError"))
       \* 43-48
       ELSE IF /\ Truthy(event_data.repeat_pattern)
               /\ event_data.repeat_pattern # RepeatPatternEnum.NONE
               /\ event_data.repeat_pattern = RepeatPatternEnum.WEEKLY
               /\ ~GivenRepeatDays(p.repeat_days)
       THEN Unchanged(HttpError(400))
       \* 52: db_event.owner_id = owner_id, on a class without that field
       ELSE IF ~HasField("owner_id") THEN Unchanged(ServerError("ValueError"))
       ELSE Drew(Outcome(OkResponse(<<db_event>>),
                         [i \in EventIds \cup {db_event.id} |->
                             IF i = db_event.id THEN db_event ELSE events[i]],
                         event_repeat_days \cup days),
                 1, Cardinality(days))

\* what a session.commit() makes visible to the other sessions
Committed(evs, rds) == [events |-> evs, event_repeat_days |-> rds]

\* lines 50-65 once reached: the commit of line 57 publishes the event, the
\* commit of line 65 its weekday rows
CreateCommitsReached(p) ==
    LET event_data == p.event_data
        db_event == EventRow(events_id_seq + 1, event_data.title,
                             event_data.event_type, event_data.start_time,
                             event_data.end_time, event_data.repeat_pattern,
                             event_data.repeat_until, today, p.owner_id)
        with_event == [i \in EventIds \cup {db_event.id} |->
                          IF i = db_event.id THEN db_event ELSE events[i]]
    IN <<Committed(with_event, event_repeat_days)>>
       \o (IF GivenRepeatDays(p.repeat_days)
              /\ event_data.repeat_pattern = RepeatPatternEnum.WEEKLY
           THEN <<Committed(with_event,
                            event_repeat_days
                              \cup NewRepeatDays(db_event.id, p.repeat_days[1]))>>
           ELSE << >>)

\* lines 17-68: the table states that the commits of create_event publish, in
\* the order of the commits; none when the handler raises before line 57
create_event_commits(p) ==
    LET event_data == p.event_data IN
    IF BadRepeatDays(p.repeat_days) THEN << >>
    ELSE IF ~DtLess(event_data.start_time, event_data.end_time) THEN << >>
    ELSE IF Truthy(event_data.repeat_pattern) /\ ~EnumHas("NONE") THEN << >>
    ELSE IF /\ Truthy(event_data.repeat_pattern)
            /\ event_data.repeat_pattern # RepeatPatternEnum.NONE
            /\ event_data.repeat_pattern = RepeatPatternEnum.WEEKLY
            /\ ~GivenRepeatDays(p.repeat_days)
    THEN << >>
    ELSE IF ~HasField("owner_id") THEN << >>
    ELSE CreateCommitsReached(p)

\* an EventCreate: a one-hour event on 2024-03-08, or one that ends as it starts
EventCreates ==
    [title : {"N"}, event_type : {"once"},
     start_time : {Combine(MkDate(2024, 3, 8), 9)},
     end_time : {Combine(MkDate(2024, 3, 8), 10), Combine(MkDate(2024, 3, 8), 9)},
     repeat_pattern : {"None", "weekly"},
     repeat_until : {<< >>}]

CreateRequests ==
    [op : {"create_event"},
     event_data : EventCreates,
     repeat_days : {<< >>, <<<<3, 1>>>>, <<<<7>>>>},
     owner_id : {1}]

----------------------------------------------------------------------------
(* routers/event.py: delete_event                                          *)

\* current_user_id.id with the attribute read as the int itself
IdAttribute_ofInt(current_user_id) == <<current_user_id>>

\* line 262: current_user_id.id; current_user_id is an int, which has no
\* attribute `id`: << >> stands for the AttributeError
IdAttribute(current_user_id) == << >>

\* lines 249-283
delete_event(p) ==
    LET ev == events[p.event_id] IN
    IF p.event_id \notin EventIds THEN Unchanged(HttpError(404))
    \* line 262 reads event.owner_id, then current_user_id.id
    ELSE IF ~HasField("owner_id") THEN Unchanged(ServerError("AttributeError"))
    ELSE IF IdAttribute(p.current_user_id) = << >>
    THEN Unchanged(ServerError("AttributeError"))
    ELSE IF ev.owner_id # IdAttribute(p.current_user_id)[1]
    THEN Unchanged(HttpError(403))
    \* 265-272
    ELSE IF Truthy(ev.repeat_pattern) /\ p.delete_future_only
    THEN Outcome(OkResponse(<<"Future instances of repeat event deleted">>),
                 [events EXCEPT ![p.event_id] =
                     [ev EXCEPT !.repeat_until = <<today>>, !.updated_at = today]],
                 event_repeat_days)
    \* 273-283
    ELSE Outcome(OkResponse(<<"Event deleted successfully">>),
                 [i \in EventIds \ {p.event_id} |-> events[i]],
                 {rd \in event_repeat_days : rd.event_id # p.event_id})

DeleteRequests ==
    [op : {"delete_event"},
     event_id : 1..(MaxEvents + 1),
     delete_future_only : BOOLEAN,
     current_user_id : {1, 2}]

----------------------------------------------------------------------------
(* routers/event.py: delete_event_repeat_days                              *)

\* status 204, no body
NoContent == [status |-> 204, raised |-> "", body |-> << >>]

\* lines 355-373
delete_event_repeat_days(p) ==
    LET repeat_days == {rd \in event_repeat_days :
                           rd.event_id = p.event_id /\ rd.id \in p.repeat_day_ids}
    IN IF repeat_days = {} THEN Unchanged(HttpError(404))
       ELSE Outcome(NoContent, events, event_repeat_days \ repeat_days)

\* one row of the first template, or both rows of it
DeleteRepeatDaysRequests ==
    [op : {"delete_event_repeat_days"},
     event_id : {1},
     repeat_day_ids : {{1}, {1, 2}}]

----------------------------------------------------------------------------
(* routers/event.py: create_event_repeat_days, update_event_repeat_days    *)

\* status 201 with the rows created
Created(body) == [status |-> 201, raised |-> "", body |-> body]

\* no response: the code that would answer does not exist, for the exception
\* named
Unserved(exc) == [status |-> 0, raised |-> exc, body |-> << >>]

\* lines 299-323; repeat_days is the list of the day_of_week of the body's
\* items, whose event_id line 314 overwrites
create_event_repeat_days(p) ==
    IF p.event_id \notin EventIds THEN Unchanged(HttpError(404))
    ELSE LET rows == NewRepeatDays(p.event_id, p.repeat_days)
             db_repeat_days ==
                 [i \in DOMAIN p.repeat_days |->
                     CHOOSE rd \in rows : rd.id = event_repeat_days_id_seq + i]
         IN Drew(Outcome(Created(db_repeat_days), events,
                         event_repeat_days \cup rows),
                 0, Len(p.repeat_days))

CreateRepeatDaysRequests ==
    [op : {"create_event_repeat_days"},
     event_id : {1, MaxEvents + 1},
     repeat_days : {<< >>, <<5>>, <<3, 1>>}]

\* lines 325-353: the annotation of line 328 names EventRepeatDayUpdate, which
\* no module defines; the def statement raises NameError and leaves no function
update_event_repeat_days(p) == Unchanged(Unserved("NameError"))

UpdateRepeatDaysRequests ==
    [op : {"update_event_repeat_days"},
     event_id : {1},
     repeat_days : {<< >>, <<[id |-> 1, day_of_week |-> 5]>>}]

----------------------------------------------------------------------------
(* main.py and the module routers/event.py: the routes.  The database is   *)
(* filled before the server starts: Init draws its rows from a few         *)
(* templates.                                                              *)

\* the names models/events.py defines
ModelsEventsNames ==
    {"EventBase", "Event", "EventCreate", "EventRead", "EventUpdate",
     "EventRepeatDayBase", "EventRepeatDay", "EventRepeatDayCreate",
     "EventRepeatDayRead"}

\* routers/event.py:8-11: from models.events import (...)
RouterEventImports ==
    {"Event", "EventCreate", "EventRead", "EventUpdate", "EventRepeatDay",
     "EventRepeatDayCreate", "EventRepeatDayRead", "EventRepeatDayUpdate",
     "EventPupilUpdate"}

\* the import of lines 8-11 raises ImportError unless every name is defined;
\* line 15 and the decorators that register the routes only run after it, and
\* main.py:6 imports the module before it builds the application
RouterLoaded == RouterEventImports \subseteq ModelsEventsNames

\* a request for a route of routers/event.py: the handler's outcome when the
\* module was loaded; no answer and no change otherwise
Route(o) == IF RouterLoaded THEN o ELSE Unchanged(Unserved("ImportError"))

\* @event.get("/"), @event.post("/"), @event.put("/{event_id}"),
\* @event.delete("/{event_id}") and the routes of /{event_id}/repeat-days
route_get_events(p, order) == Route(Unchanged(get_events(p, order)))
route_create_event(p) == Route(create_event(p))
route_update_event(p) == Route(update_event(p))
route_delete_event(p) == Route(delete_event(p))
route_create_event_repeat_days(p) == Route(create_event_repeat_days(p))
route_update_event_repeat_days(p) == Route(update_event_repeat_days(p))
route_delete_event_repeat_days(p) == Route(delete_event_repeat_days(p))

\* the commits of create_event that other sessions see
route_create_event_commits(p) ==
    IF RouterLoaded THEN create_event_commits(p) ELSE << >>

\* the request p had the outcome o
Answered(p, o) ==
    /\ req' = p
    /\ resp' = o.resp
    /\ events' = o.events
    /\ event_repeat_days' = o.event_repeat_days
    /\ events_id_seq' = o.events_id_seq
    /\ event_repeat_days_id_seq' = o.event_repeat_days_id_seq
    /\ UNCHANGED <<engine, today>>

GetEvents ==
    \E p \in GetEventsRequests :
        \E order \in QueryOrders(p) : Answered(p, route_get_events(p, order))

CreateEvent ==
    \E p \in CreateRequests : Answered(p, route_create_event(p))

UpdateEvent ==
    \E p \in UpdateRequests : Answered(p, route_update_event(p))

DeleteEvent ==
    \E p \in DeleteRequests : Answered(p, route_delete_event(p))

CreateEventRepeatDays ==
    \E p \in CreateRepeatDaysRequests :
        Answered(p, route_create_event_repeat_days(p))

UpdateEventRepeatDays ==
    \E p \in UpdateRepeatDaysRequests :
        Answered(p, route_update_event_repeat_days(p))

DeleteEventRepeatDays ==
    \E p \in DeleteRepeatDaysRequests :
        Answered(p, route_delete_event_repeat_days(p))

FirstToday == MkDate(2024, 3, 6)
MaxTicks == 1

Stamp == MkDate(2024, 1, 1)

\* kind -> the row of that kind with the given id
SampleRow(kind, id) ==
    CASE kind = "A" ->
           EventRow(id, "A", "once", Combine(MkDate(2024, 3, 4), 9),
                    Combine(MkDate(2024, 3, 4), 10), "None", << >>, Stamp, 1)
      [] kind = "B" ->
           EventRow(id, "B", "once", Combine(MkDate(2024, 3, 2), 23),
                    Combine(MkDate(2024, 3, 3), 1), "None", << >>, Stamp, 1)
      [] kind = "W" ->
           EventRow(id, "W", "repeat", Combine(MkDate(2024, 3, 4), 9),
                    Combine(MkDate(2024, 3, 4), 10), "weekly", << >>, Stamp, 1)
      [] kind = "C" ->
           EventRow(id, "C", "repeat", Combine(MkDate(2024, 3, 4), 9),
                    Combine(MkDate(2024, 3, 4), 10), "custom_days",
                    <<MkDate(2024, 3, 5)>>, Stamp, 1)
      [] kind = "L" ->
           EventRow(id, "L", "repeat", Combine(MkDate(2024, 3, 11), 9),
                    Combine(MkDate(2024, 3, 11), 10), "weekly", << >>, Stamp, 1)

SampleKinds == {"A", "B", "W", "C", "L"}

\* the weekdays stored with a row of that kind
SampleDays(kind) == IF kind \in {"W", "C", "L"} THEN {1, 3} ELSE {}

\* the order in which the rows were inserted
KindOrder == <<"A", "B", "W", "C", "L">>
KindIndex(kind) == CHOOSE i \in DOMAIN KindOrder : KindOrder[i] = kind

\* the contents of the database: up to MaxEvents rows of distinct kinds, with
\* ids in the order of insertion
Fills ==
    UNION {{f \in [1..n -> SampleKinds] :
               \A i, j \in 1..n : i < j => KindIndex(f[i]) < KindIndex(f[j])} :
             n \in 0..MaxEvents}

\* the weekday rows of the events, with the ids the sequence gave them in the
\* order of insertion
FillRepeatDays(f) ==
    UNION {{[id |-> 2 * Cardinality({j \in 1..(i - 1) : SampleDays(f[j]) # {}})
                      + 1 + Cardinality({e \in SampleDays(f[i]) : e < day}),
             event_id |-> i, day_of_week |-> day] : day \in SampleDays(f[i])} :
             i \in DOMAIN f}

Init ==
    /\ \E f \in Fills :
          /\ events = [i \in DOMAIN f |-> SampleRow(f[i], i)]
          /\ event_repeat_days = FillRepeatDays(f)
          /\ events_id_seq = Len(f)
          /\ event_repeat_days_id_seq = Cardinality(FillRepeatDays(f))
    /\ today = FirstToday
    /\ req = NoRequest
    /\ resp = NoResponse
    /\ event = Template(MkDate(2024, 3, 4), 9, 1, "None", << >>, {})
    /\ window = <<FirstToday, FirstToday>>
    /\ phase = "idle"
    /\ out = NoOutput

\* the server's date moves to the next day
Tick ==
    /\ today < FirstToday + MaxTicks
    /\ today' = today + 1
    /\ UNCHANGED <<engine, store, sequences, req, resp>>

Next ==
    \/ GetEvents \/ CreateEvent \/ UpdateEvent \/ DeleteEvent
    \/ CreateEventRepeatDays \/ UpdateEventRepeatDays \/ DeleteEventRepeatDays
    \/ Tick

Spec == Init /\ [][Next]_vars

----------------------------------------------------------------------------
(* Claims about the expansion engine, checked under SpecExpand.            *)

\* the calendar date of an occurrence: instance_date, or the template's own
\* date for the occurrence of a single event
OccDate(o) == IF o.instance_date # << >> THEN o.instance_date[1] ELSE o.original_date

OutDates == {OccDate(out.instances[i]) : i \in 1..Len(out.instances)}

\* weekday of a date in the 0 = Sunday .. 6 = Saturday convention
SundayWeekday(d) == (d + 1) % 7

\* [max(windowStart, start date), min(windowEnd, repeat_until or windowEnd)]
RangeFrom == Max(window[1], event.start_time.date)
RangeTo ==
    IF event.repeat_until # << >> THEN Min(window[2], event.repeat_until[1])
    ELSE window[2]
InRange(d) == RangeFrom <= d /\ d <= RangeTo

\* C1: for every template with start_time < end_time, also one that ends on a
\* later calendar date, and every window, the call returns its occurrences
\* and every one of them has start_time < end_time.
C1_OccurrenceStartBeforeEnd ==
    (phase = "done" /\ DtLess(event.start_time, event.end_time))
    => /\ out.raised = ""
       /\ \A i \in 1..Len(out.instances) :
             DtLess(out.instances[i].start_time, out.instances[i].end_time)

\* C2 as stated: every occurrence is dated inside the window, and not after
\* repeat_until whenever the template's repeat_until is set.
C2_Original ==
    phase = "done"
    => \A i \in 1..Len(out.instances) :
          LET d == OccDate(out.instances[i]) IN
          /\ window[1] <= d /\ d <= window[2]
          /\ event.repeat_until # << >> => d <= event.repeat_until[1]

\* C2 amended: every occurrence is dated inside the window, and not after
\* repeat_until whenever the template repeats and its repeat_until is set.
C2_DateInWindow ==
    phase = "done"
    => \A i \in 1..Len(out.instances) :
          LET d == OccDate(out.instances[i]) IN
          /\ window[1] <= d /\ d <= window[2]
          /\ (Truthy(event.repeat_pattern) /\ event.repeat_until # << >>)
                => d <= event.repeat_until[1]

\* an occurrence was returned inside a window that ends before the last date
\* of the model, for a template that carries a repeat_until
C2_Witness ==
    /\ phase = "done"
    /\ Len(out.instances) >= 1
    /\ event.repeat_until # << >>
    /\ \E w \in Windows : w[2] > window[2]

SubWindows == {w \in Windows : window[1] <= w[1] /\ w[2] <= window[2]}
InWindow(o, w) == w[1] <= OccDate(o) /\ OccDate(o) <= w[2]
Restrict(instances, w) == SelectSeq(instances, LAMBDA o : InWindow(o, w))

\* C3: the expansion over a window [a,b] inside [a',b'] is exactly the
\* occurrences of the expansion over [a',b'] that are dated in [a,b].
C3_MonotonicWindowing ==
    phase = "done"
    => \A w \in SubWindows :
          generate_repeat_instances(event, w[1], w[2]).instances
            = Restrict(out.instances, w)

\* the outer window yields an occurrence that one strictly smaller window
\* keeps and another strictly smaller window drops
C3_Witness ==
    /\ phase = "done"
    /\ Len(out.instances) >= 1
    /\ \E w \in SubWindows \ {window} :
          Len(generate_repeat_instances(event, w[1], w[2]).instances) >= 1
    /\ \E w \in SubWindows \ {window} :
          generate_repeat_instances(event, w[1], w[2]).instances = << >>

\* C4: the expansion of a repeating template finds the DAILY member it tests
\* for, and a DAILY template yields exactly one occurrence for each date of
\* [max(windowStart, start date), min(windowEnd, repeat_until or windowEnd)].
C4_DailyEveryDate ==
    (phase = "done" /\ Truthy(event.repeat_pattern))
    => /\ EnumHas("DAILY")
       /\ event.repeat_pattern = RepeatPatternEnum_withDaily.DAILY
            => /\ out.raised = ""
               /\ OutDates = {d \in window[1]..window[2] : InRange(d)}
               /\ Len(out.instances) = Cardinality(OutDates)

\* C5: a WEEKLY template with a non-empty WeekdaySet yields an occurrence on
\* d if and only if d is in range and the weekday of d (0 = Sunday) is in the set.
C5_WeeklyOnWeekdaySet ==
    (phase = "done" /\ event.repeat_pattern = "weekly" /\ event.repeat_days # {})
    => /\ out.raised = ""
       /\ OutDates = {d \in window[1]..window[2] :
                        InRange(d) /\ SundayWeekday(d) \in event.repeat_days}

\* C6: a WEEKLY template with an empty WeekdaySet yields occurrences exactly
\* on the dates in range that fall on the weekday of its own start date.
C6_WeeklyImplicitWeekday ==
    (phase = "done" /\ event.repeat_pattern = "weekly" /\ event.repeat_days = {})
    => /\ out.raised = ""
       /\ OutDates = {d \in window[1]..window[2] :
                        /\ InRange(d)
                        /\ SundayWeekday(d) = SundayWeekday(event.start_time.date)}

\* C7: a MONTHLY template yields at most one occurrence per calendar month,
\* always on the day-of-month of its start date; a month without that day
\* yields none, and the months after it still yield theirs.
C7_MonthlySameDayOrSkip ==
    (phase = "done" /\ event.repeat_pattern = "monthly")
    => /\ out.raised = ""
       /\ \A d \in OutDates : DayOf(d) = DayOf(event.start_time.date)
       /\ \A i, j \in 1..Len(out.instances) :
             LET di == OccDate(out.instances[i])
                 dj == OccDate(out.instances[j])
             IN (MonthOf(di) = MonthOf(dj) /\ YearOf(di) = YearOf(dj)) => i = j
       /\ \A d \in window[1]..window[2] :
             (InRange(d) /\ DayOf(d) = DayOf(event.start_time.date))
               => d \in OutDates

\* C8: a CUSTOM_DAYS template with a non-empty WeekdaySet returns the same
\* occurrence dates as the WEEKLY template with the same fields and set.
C8_CustomDaysAsWeekly ==
    (phase = "done" /\ event.repeat_pattern = "custom_days" /\ event.repeat_days # {})
    => LET weekly == generate_repeat_instances(
                        [event EXCEPT !.repeat_pattern = "weekly"],
                        window[1], window[2])
       IN /\ out.raised = "" /\ weekly.raised = ""
          /\ [i \in 1..Len(out.instances) |-> OccDate(out.instances[i])]
               = [i \in 1..Len(weekly.instances) |-> OccDate(weekly.instances[i])]

----------------------------------------------------------------------------
(* Claims about the handlers, checked under Spec.                          *)

Ascending(instances) ==
    \A i, j \in 1..Len(instances) :
        i < j => DtLeq(instances[i].start_time, instances[j].start_time)

\* the window get_events expands over for the request it served
ServedStart == DefaultStart(req.start_date)
ServedEnd == DefaultEnd(ServedStart, req.end_date)

\* C9: get_events asked for the occurrences of the stored templates answers
\* with them, sorted ascending by start_time, and the occurrences of each
\* template it selected come in ascending start_time order.
C9_SortedByStartTime ==
    (req.op = "get_events" /\ req.include_repeats)
    => /\ resp.status = 200
       /\ Ascending(resp.body)
       /\ \A id \in QueryIds(req) :
             LET r == generate_repeat_instances(Loaded(id), ServedStart,
                                                ServedEnd)
             IN r.raised = "" /\ Ascending(r.instances)

\* C10: an update of the future instances of a repeating template on day D
\* sets the original's repeat_until to D-1 and changes no other field of it.
C10_FutureUpdateFreezesOriginal ==
    [][(/\ UpdateEvent
        /\ req'.update_future_only
        /\ req'.current_user_id = 1
        /\ ~BadRepeatDays(req'.repeat_days)
        /\ req'.event_id \in EventIds
        /\ Truthy(events[req'.event_id].repeat_pattern))
       => /\ req'.event_id \in DOMAIN events'
          /\ events'[req'.event_id]
               = [events[req'.event_id] EXCEPT !.repeat_until = <<today - 1>>]]_vars

\* a step that serves an update of the future instances of a stored repeating
\* template, asked with well-formed repeat days by user 1
FutureUpdateServed ==
    /\ UpdateEvent
    /\ req'.update_future_only
    /\ req'.current_user_id = 1
    /\ ~BadRepeatDays(req'.repeat_days)
    /\ req'.event_id \in EventIds
    /\ Truthy(events[req'.event_id].repeat_pattern)

\* C11: an update of the future instances on day D succeeds and leaves two
\* templates with different ids: the original, and a successor that carries
\* the original's fields with the patch applied and starts on date D.
C11_FutureUpdateCreatesSuccessor ==
    [][FutureUpdateServed
       => /\ resp'.status = 200
          /\ req'.event_id \in DOMAIN events'
          /\ \E new \in DOMAIN events' \ DOMAIN events :
                LET orig == events[req'.event_id]
                    succ == events'[new]
                    want == ApplyPatch(orig, req'.patch)
                IN /\ new # req'.event_id
                   /\ DOMAIN events' = DOMAIN events \cup {new}
                   /\ succ.start_time.date = today
                   /\ succ.start_time.hour = want.start_time.hour
                   /\ succ.title = want.title
                   /\ succ.event_type = want.event_type
                   /\ succ.repeat_pattern = want.repeat_pattern
                   /\ succ.repeat_until = want.repeat_until]_vars

\* a row of a table state with its repeat_days relationship loaded
LoadedFrom(evs, rds, id) ==
    evs[id] @@ [repeat_days |-> {rd.day_of_week : rd \in {r \in rds : r.event_id = id}}]

\* the windows that start before the date d and end on or after it
WindowsSpanning(d) == {w \in Windows : w[1] < d /\ d <= w[2]}

\* C12: after an update of the future instances on day D that sets the title,
\* the expansion of the series over a window spanning D returns occurrences,
\* those dated before D with the old title and those dated D or later with
\* the new title.
C12_OldTitleBeforeNewTitleAfter ==
    [][(FutureUpdateServed /\ req'.patch.title # << >>)
       => \A w \in WindowsSpanning(today) :
             \A id \in {req'.event_id} \cup (DOMAIN events' \ DOMAIN events) :
                /\ id \in DOMAIN events'
                /\ LET r == generate_repeat_instances(
                               LoadedFrom(events', event_repeat_days', id),
                               w[1], w[2])
                   IN /\ r.raised = ""
                      /\ \A i \in 1..Len(r.instances) :
                            r.instances[i].title =
                               IF OccDate(r.instances[i]) < today
                               THEN events[req'.event_id].title
                               ELSE req'.patch.title[1]]_vars

\* the step answers req' with the response of update_event and stores its
\* outcome: the step of UpdateEvent for the request req'
UpdateStep == req'.op = "update_event" /\ Answered(req', route_update_event(req'))

\* a step that serves an update of the future instances of a stored repeating
\* template, whoever asks and whatever it answers
FutureUpdateAttempt ==
    /\ UpdateStep
    /\ req'.update_future_only
    /\ req'.event_id \in EventIds
    /\ Truthy(events[req'.event_id].repeat_pattern)

\* the dates of the occurrences an expansion returned
DatesOf(r) == {OccDate(r.instances[i]) : i \in 1..Len(r.instances)}

\* the windows that end before the date d, and those that start on d or later
WindowsBefore(d) == {w \in Windows : w[2] < d} \cup {<<w[1], d - 1>> : w \in WindowsSpanning(d)}
WindowsFrom(d) == {w \in Windows : w[1] >= d} \cup {<<d, w[2]>> : w \in WindowsSpanning(d)}

\* a step that serves a delete of the future instances of a stored repeating
\* template, asked by user 1
FutureDeleteServed ==
    /\ DeleteEvent
    /\ req'.delete_future_only
    /\ req'.current_user_id = 1
    /\ req'.event_id \in EventIds
    /\ Truthy(events[req'.event_id].repeat_pattern)

\* C14: a delete of the future instances of a repeating template on day D
\* succeeds, keeps the template and its weekday rows, still yields the
\* occurrences dated before D, and yields none for a window that starts on D
\* or later.
C14_FutureDeleteKeepsPast ==
    [][FutureDeleteServed
       => LET id == req'.event_id
              before(w) == generate_repeat_instances(Loaded(id), w[1], w[2])
              after(w) == generate_repeat_instances(
                              LoadedFrom(events', event_repeat_days', id), w[1], w[2])
          IN /\ resp'.status = 200
             /\ id \in DOMAIN events'
             /\ {rd \in event_repeat_days' : rd.event_id = id}
                  = {rd \in event_repeat_days : rd.event_id = id}
             /\ \A w \in WindowsBefore(today) :
                   after(w).raised = "" /\ DatesOf(before(w)) \subseteq DatesOf(after(w))
             /\ \A w \in WindowsFrom(today) :
                   after(w).raised = "" /\ after(w).instances = << >>]_vars

\* C15: a delete of the whole series, asked by user 1 for a stored template,
\* removes the template and every weekday row of it, so no later expansion
\* over the store finds it.
C15_DeleteAllRemovesTemplate ==
    [][(/\ DeleteEvent
        /\ ~req'.delete_future_only
        /\ req'.current_user_id = 1
        /\ req'.event_id \in EventIds)
       => /\ req'.event_id \notin DOMAIN events'
          /\ \A rd \in event_repeat_days' : rd.event_id # req'.event_id]_vars

\* a step that serves a request of scope FUTURE for a stored template that
\* has no repeat pattern
FutureScopeOnSingle(id, flag) ==
    /\ flag
    /\ id \in EventIds
    /\ ~Truthy(events[id].repeat_pattern)

\* a 4xx answer: the request is the caller's error
CallerError(r) == r.status >= 400 /\ r.status < 500

\* C16: a delete of the future instances of a template without a repeat
\* pattern is answered as a caller error, and the tables are as before.
C16_FutureDeleteOfSingleRejected ==
    [][(DeleteEvent /\ FutureScopeOnSingle(req'.event_id, req'.delete_future_only)
        /\ req'.current_user_id = 1)
       => /\ CallerError(resp')
          /\ UNCHANGED store]_vars

\* C17: an update of the future instances of a template without a repeat
\* pattern is answered as a caller error, and the tables are as before.
C17_FutureUpdateOfSingleRejected ==
    [][(UpdateEvent /\ FutureScopeOnSingle(req'.event_id, req'.update_future_only)
        /\ req'.current_user_id = 1
        /\ ~BadRepeatDays(req'.repeat_days))
       => /\ CallerError(resp')
          /\ UNCHANGED store]_vars

\* the template the patch of the request asks for
PatchedRow == ApplyPatch(events[req'.event_id], req'.patch)

\* C18: an update of the event itself whose patched template has
\* start_time >= end_time is answered as a caller error, and the template and
\* its weekday rows are as before.
C18_UpdateAllRejectsBadTimes ==
    [][(/\ UpdateStep
        /\ ~req'.update_future_only
        /\ req'.current_user_id = 1
        /\ ~BadRepeatDays(req'.repeat_days)
        /\ req'.event_id \in EventIds
        /\ ~DtLess(PatchedRow.start_time, PatchedRow.end_time))
       => /\ CallerError(resp')
          /\ UNCHANGED store]_vars

\* C19: an update of the future instances whose patch changes start_time or
\* end_time stores a successor, and every template stored after it, the
\* successor included, has start_time < end_time.
C19_StoredStartBeforeEnd ==
    [][(/\ FutureUpdateServed
        /\ (req'.patch.start_time # << >> \/ req'.patch.end_time # << >>))
       => /\ DOMAIN events' \ DOMAIN events # {}
          /\ \A id \in DOMAIN events' :
                DtLess(events'[id].start_time, events'[id].end_time)]_vars

\* C20: an update of the future instances on day D succeeds with a successor
\* that starts on D and lasts as long as the template it was copied from.
C20_SuccessorKeepsDuration ==
    [][FutureUpdateServed
       => /\ resp'.status = 200
          /\ \E new \in DOMAIN events' \ DOMAIN events :
                /\ events'[new].start_time.date = today
                /\ HoursBetween(events'[new].end_time, events'[new].start_time)
                     = HoursBetween(events[req'.event_id].end_time,
                                    events[req'.event_id].start_time)]_vars

\* every WEEKLY template of the table evs has a weekday row in rds
WeeklyHaveRows(evs, rds) ==
    \A id \in DOMAIN evs :
        evs[id].repeat_pattern = RepeatPatternEnum.WEEKLY
          => \E rd \in rds : rd.event_id = id

\* C24: a create_event, an update_event or a delete_event_repeat_days
\* request is answered by its handler, with a success or with a caller
\* error, and after it every stored WEEKLY template has at least one weekday
\* row.
C24_WeeklyHasWeekdayRow ==
    [][(CreateEvent \/ UpdateEvent \/ DeleteEventRepeatDays)
       => /\ resp'.status \in 200..499
          /\ WeeklyHaveRows(events', event_repeat_days')]_vars

\* the weekday rows of a template in a table of rows
RowsOf(rds, id) == {rd \in rds : rd.event_id = id}

\* C21: an update of the future instances that supplies weekdays and leaves
\* a WEEKLY successor succeeds, stores the supplied weekdays as rows of the
\* successor, and leaves the rows of the original as they were.
C21_NewWeekdaysOnSuccessorOnly ==
    [][(/\ FutureUpdateServed
        /\ req'.repeat_days # << >>
        /\ ApplyPatch(events[req'.event_id], req'.patch).repeat_pattern
             = RepeatPatternEnum.WEEKLY)
       => /\ resp'.status = 200
          /\ RowsOf(event_repeat_days', req'.event_id)
               = RowsOf(event_repeat_days, req'.event_id)
          /\ \E new \in DOMAIN events' \ DOMAIN events :
                {rd.day_of_week : rd \in RowsOf(event_repeat_days', new)}
                  = Range(req'.repeat_days[1])]_vars

\* C22: an update of the event itself that supplies weekdays, keeps
\* start_time < end_time and leaves the pattern WEEKLY or CUSTOM_DAYS
\* succeeds, and the weekdays stored for the template afterwards are exactly
\* the supplied ones.
C22_UpdateAllReplacesWeekdays ==
    [][(/\ UpdateStep
        /\ ~req'.update_future_only
        /\ req'.current_user_id = 1
        /\ req'.event_id \in EventIds
        /\ req'.repeat_days # << >>
        /\ ~BadRepeatDays(req'.repeat_days)
        /\ DtLess(ApplyPatch(events[req'.event_id], req'.patch).start_time,
                  ApplyPatch(events[req'.event_id], req'.patch).end_time)
        /\ ApplyPatch(events[req'.event_id], req'.patch).repeat_pattern
             \in {RepeatPatternEnum.WEEKLY, RepeatPatternEnum.CUSTOM_DAYS})
       => /\ resp'.status = 200
          /\ {rd.day_of_week : rd \in RowsOf(event_repeat_days', req'.event_id)}
               = Range(req'.repeat_days[1])]_vars

\* the step answers req' with the response of delete_event and stores its
\* outcome: the step of DeleteEvent for the request req'
DeleteStep == req'.op = "delete_event" /\ Answered(req', route_delete_event(req'))

\* a step that serves a request of scope FUTURE, an update or a delete, for
\* a stored repeating template
FutureScopeStep ==
    /\ \/ UpdateStep /\ req'.update_future_only
       \/ DeleteStep /\ req'.delete_future_only
    /\ req'.event_id \in EventIds
    /\ Truthy(events[req'.event_id].repeat_pattern)

\* C23: a request of scope FUTURE made by the owner on day D is carried out,
\* keeps the template, never moves its repeat_until to a later date, and
\* leaves the expansion over every window that ends before D as it was.
C23_PastOccurrencesFrozen ==
    [][(/\ FutureScopeStep
        /\ req'.current_user_id = 1
        /\ req'.op = "update_event" => ~BadRepeatDays(req'.repeat_days))
       => LET id == req'.event_id IN
          /\ resp'.status \in 200..299
          /\ id \in DOMAIN events'
          /\ events[id].repeat_until # << >>
               => /\ events'[id].repeat_until # << >>
                  /\ events'[id].repeat_until[1] <= events[id].repeat_until[1]
          /\ \A w \in WindowsBefore(today) :
                generate_repeat_instances(
                    LoadedFrom(events', event_repeat_days', id), w[1], w[2])
                  = generate_repeat_instances(Loaded(id), w[1], w[2])]_vars

\* helpers.py:39-40: the dates on which a template generates occurrences lie
\* between its start date and its repeat_until
Generates(row, d) ==
    /\ Truthy(row.repeat_pattern)
    /\ row.start_time.date <= d
    /\ (row.repeat_until = << >> \/ d <= row.repeat_until[1])

HorizonDates == MkDate(2024, 3, 1)..MkDate(2024, 4, 30)

\* C25: an update of the future instances stores a successor, and no date is
\* generated by two of the templates it leaves behind for the series: the
\* original and the successors never generate the same date.
C25_DescendantsNeverOverlap ==
    [][FutureUpdateServed
       => LET series == {req'.event_id} \cup (DOMAIN events' \ DOMAIN events)
          IN /\ DOMAIN events' \ DOMAIN events # {}
             /\ series \subseteq DOMAIN events'
             /\ \A a, b \in series :
                   a # b => \A d \in HorizonDates :
                               ~(Generates(events'[a], d) /\ Generates(events'[b], d))]_vars

\* a patch that changes the title and nothing else
TitleOnly(patch) ==
    /\ patch.title # << >>
    /\ patch.start_time = << >> /\ patch.end_time = << >>
    /\ patch.repeat_pattern = << >> /\ patch.repeat_until = << >>

\* C26: an update of the future instances of a WEEKLY template with weekday
\* rows, whose patch changes only the title and which supplies no weekdays,
\* succeeds and leaves a successor whose weekday rows name exactly the
\* weekdays of the original.
C26_TitleOnlyKeepsWeekdays ==
    [][(/\ FutureUpdateAttempt
        /\ req'.current_user_id = 1
        /\ req'.repeat_days = << >>
        /\ TitleOnly(req'.patch)
        /\ events[req'.event_id].repeat_pattern = RepeatPatternEnum.WEEKLY
        /\ RepeatDaysOf(req'.event_id) # {})
       => /\ resp'.status = 200
          /\ \E new \in DOMAIN events' \ DOMAIN events :
                {rd.day_of_week : rd \in RowsOf(event_repeat_days', new)}
                  = RepeatDaysOf(req'.event_id)]_vars

\* C27: an update of the future instances made on a day before the
\* template's start date is carried out and leaves no template, the original
\* or a new one, that generates an occurrence on a date earlier than that
\* start date.
C27_NothingBeforeOriginalStart ==
    [][(FutureUpdateServed /\ events[req'.event_id].start_time.date > today)
       => /\ resp'.status = 200
          /\ \A id \in {req'.event_id} \cup (DOMAIN events' \ DOMAIN events) :
                id \in DOMAIN events'
                  => \A d \in HorizonDates :
                        Generates(events'[id], d)
                          => d >= events[req'.event_id].start_time.date]_vars

CreateStep == req'.op = "create_event" /\ Answered(req', route_create_event(req'))

\* the store a create_event request leaves is the one its last commit
\* published, or the one it found when it committed nothing
CreateCommitsAgree ==
    [][CreateStep
       => LET cs == route_create_event_commits(req')
          IN IF cs = << >> THEN UNCHANGED store
             ELSE /\ events' = cs[Len(cs)].events
                  /\ event_repeat_days' = cs[Len(cs)].event_repeat_days]_vars

\* C29: a valid create_event request for a WEEKLY template with repeat days
\* commits the template, and none of its commits publishes the new template
\* without the weekday rows that were asked for, so that no reader between
\* its commits can see it without them.
C29_CreateWeeklyAtomic ==
    [][(/\ CreateStep
        /\ req'.event_data.repeat_pattern = RepeatPatternEnum.WEEKLY
        /\ DtLess(req'.event_data.start_time, req'.event_data.end_time)
        /\ GivenRepeatDays(req'.repeat_days) /\ ~BadRepeatDays(req'.repeat_days))
       => LET cs == route_create_event_commits(req')
          IN /\ cs # << >>
             /\ \A k \in DOMAIN cs :
                   \A id \in DOMAIN cs[k].events \ DOMAIN events :
                      {rd.day_of_week : rd \in RowsOf(cs[k].event_repeat_days, id)}
                        = Range(req'.repeat_days[1])]_vars

====
